---- MODULE Spec2Model ----
(***************************************************************************)
(* CharWrapper: the text-transition engine (TextTransition), the facade    *)
(* (CharWrapper) that drives it, and the animation timeline it schedules.  *)
(*                                                                         *)
(* Texts are sequences of one-character strings.  Indices into texts and   *)
(* element lists are 0-based, as in the source; CharAt/ElemAt translate.   *)
(* Elements are identified by positive integers.                           *)
(***************************************************************************)
EXTENDS Integers, Sequences, FiniteSets, TLC

\* ------------------------------------------------------------------ bounds
\* longest old/new text given to the planning functions
MaxLen == 3
\* most elements handed to the planning functions
MaxElems == 3

\* ----------------------------------------------------------- basic values
\* the characters the planning functions are exercised on
PlanChars == {"a", "b"}

\* oldChars[index] for an index past the end of oldText
UndefChar == "undefined"

\* oldElements[i] for an index past the end of oldElements
NoElem == 0

SeqsUpTo(S, n) == UNION {[1..k -> S] : k \in 0..n}

Abs(x) == IF x < 0 THEN -x ELSE x

Min2(a, b) == IF a < b THEN a ELSE b

Max2(a, b) == IF a > b THEN a ELSE b

\* the indices 0 .. n-1 in ascending order
Indices(n) == [k \in 1..n |-> k - 1]

CharAt(text, i) == IF i + 1 <= Len(text) THEN text[i + 1] ELSE UndefChar

ElemAt(els, i) == IF i + 1 <= Len(els) THEN els[i + 1] ELSE NoElem

\* the elements 1 .. n, the element list of a freshly wrapped text
FirstElems(n) == [k \in 1..n |-> k]

\* -------------------------------------------- TextTransition.smartMapping
UsedOld(keep) == {keep[k].oldIndex : k \in DOMAIN keep}

UsedNew(keep) == {keep[k].newIndex : k \in DOMAIN keep}

\* first pass: identical characters in exact positions
RECURSIVE FirstPass(_, _, _, _)
FirstPass(i, oldText, newText, oldElements) ==
  IF i >= Min2(Len(oldText), Len(newText)) THEN <<>>
  ELSE IF oldText[i + 1] = newText[i + 1]
       THEN <<[oldIndex |-> i, newIndex |-> i, element |-> ElemAt(oldElements, i)]>>
            \o FirstPass(i + 1, oldText, newText, oldElements)
       ELSE FirstPass(i + 1, oldText, newText, oldElements)

\* a variant of the inner loop that does not skip the used old indices
BestOldIdxShared(newIdx, oldText, newText, usedOld) ==
  LET cand == {o \in 0..(Len(oldText) - 1) : oldText[o + 1] = newText[newIdx + 1]}
  IN IF cand = {} THEN -1
     ELSE CHOOSE o \in cand : \A p \in cand :
            \/ Abs(o - newIdx) < Abs(p - newIdx)
            \/ Abs(o - newIdx) = Abs(p - newIdx) /\ o <= p

\* the inner loop of the second pass: bestOldIdx for newIdx, -1 when none
BestOldIdx(newIdx, oldText, newText, usedOld) ==
  LET cand == {o \in 0..(Len(oldText) - 1) :
                 o \notin usedOld /\ oldText[o + 1] = newText[newIdx + 1]}
  IN IF cand = {} THEN -1
     ELSE CHOOSE o \in cand : \A p \in cand :
            \/ Abs(o - newIdx) < Abs(p - newIdx)
            \/ Abs(o - newIdx) = Abs(p - newIdx) /\ o <= p

\* second pass: remaining new indices, ascending, matched by proximity
RECURSIVE SecondPass(_, _, _, _, _)
SecondPass(newIdx, keep, oldText, newText, oldElements) ==
  IF newIdx >= Len(newText) THEN keep
  ELSE IF newIdx \in UsedNew(keep)
       THEN SecondPass(newIdx + 1, keep, oldText, newText, oldElements)
       ELSE LET best == BestOldIdx(newIdx, oldText, newText, UsedOld(keep))
            IN IF best /= -1
               THEN SecondPass(newIdx + 1,
                      Append(keep, [oldIndex |-> best, newIndex |-> newIdx,
                                    element |-> ElemAt(oldElements, best)]),
                      oldText, newText, oldElements)
               ELSE SecondPass(newIdx + 1, keep, oldText, newText, oldElements)

smartMapping(oldText, newText, oldElements) ==
  LET keep == SecondPass(0, FirstPass(0, oldText, newText, oldElements),
                         oldText, newText, oldElements)
      Unused(i) == i \notin UsedOld(keep)
      Unmatched(i) == i \notin UsedNew(keep)
      rem == SelectSeq(Indices(Len(oldText)), Unused)
      adds == SelectSeq(Indices(Len(newText)), Unmatched)
  IN [keep |-> keep,
      remove |-> [k \in DOMAIN rem |->
                    [index |-> rem[k], element |-> ElemAt(oldElements, rem[k])]],
      add |-> [k \in DOMAIN adds |-> [index |-> adds[k], char |-> newText[adds[k] + 1]]]]

\* --------------------------------------- TextTransition.sequentialMapping
sequentialMapping(oldText, newText, oldElements) ==
  [keep |-> <<>>,
   remove |-> [k \in DOMAIN oldElements |-> [index |-> k - 1, element |-> oldElements[k]]],
   add |-> [k \in DOMAIN newText |-> [index |-> k - 1, char |-> newText[k]]]]

\* ------------------------------------------ TextTransition.smartTransition
\* the keys of oldElementMap in Map (first insertion) order
MapKeys(oldText, oldElements) ==
  LET First(i) == \A j \in 0..(i - 1) : CharAt(oldText, j) /= CharAt(oldText, i)
      firsts == SelectSeq(Indices(Len(oldElements)), First)
  IN [k \in DOMAIN firsts |-> CharAt(oldText, firsts[k])]

\* a variant that files an element under every character but its own
ElementsFiledUnderWrong(char, oldText, oldElements) ==
  LET Shows(i) == CharAt(oldText, i) /= char
      at == SelectSeq(Indices(Len(oldElements)), Shows)
  IN [k \in DOMAIN at |-> oldElements[at[k] + 1]]

\* a variant that files the elements in descending index order
ElementsFiledUnderReversed(char, oldText, oldElements) ==
  LET Shows(i) == CharAt(oldText, i) = char
      at == SelectSeq(Indices(Len(oldElements)), Shows)
  IN [k \in DOMAIN at |-> oldElements[at[Len(at) + 1 - k] + 1]]

\* oldElementMap.get(char): the old elements filed under char, in index order
ElementsFiledUnder(char, oldText, oldElements) ==
  LET Shows(i) == CharAt(oldText, i) = char
      at == SelectSeq(Indices(Len(oldElements)), Shows)
  IN [k \in DOMAIN at |-> oldElements[at[k] + 1]]

oldElementMap(oldText, oldElements) ==
  [c \in {CharAt(oldText, i) : i \in 0..(Len(oldElements) - 1)} |->
     ElementsFiledUnder(c, oldText, oldElements)]

\* newChars.forEach: reuse the first available old element of the same
\* character, else create element nextId; acc collects the result
RECURSIVE BuildLoop(_, _, _, _, _)
BuildLoop(newIndex, newText, avail, acc, nextId) ==
  IF newIndex >= Len(newText) THEN [acc EXCEPT !.left = avail]
  ELSE LET char == newText[newIndex + 1]
       IN IF char \in DOMAIN avail /\ Len(avail[char]) > 0
          THEN BuildLoop(newIndex + 1, newText,
                 [avail EXCEPT ![char] = Tail(@)],
                 [acc EXCEPT !.newElements = Append(@, Head(avail[char])),
                             !.reused = Append(@, [element |-> Head(avail[char]),
                                                   newIndex |-> newIndex])],
                 nextId)
          ELSE BuildLoop(newIndex + 1, newText, avail,
                 [acc EXCEPT !.newElements = Append(@, nextId),
                             !.created = Append(@, [element |-> nextId, char |-> char,
                                                    index |-> newIndex]),
                             !.elementsToAdd = Append(@, nextId)],
                 nextId + 1)

\* a variant that collects nothing
LeftoverNone(keys, avail) == <<>>

\* oldElementMap.forEach: what is left in the map, key by key
RECURSIVE Leftover(_, _)
Leftover(keys, avail) ==
  IF keys = <<>> THEN <<>> ELSE avail[Head(keys)] \o Leftover(Tail(keys), avail)

\* the element bookkeeping of smartTransition, before anything is scheduled
smartBuild(oldText, newText, oldElements, nextId) ==
  LET done == BuildLoop(0, newText, oldElementMap(oldText, oldElements),
                        [newElements |-> <<>>, reused |-> <<>>, created |-> <<>>,
                         elementsToAdd |-> <<>>, left |-> <<>>], nextId)
  IN [newElements |-> done.newElements,
      reused |-> done.reused,
      created |-> done.created,
      elementsToAdd |-> done.elementsToAdd,
      elementsToRemove |-> Leftover(MapKeys(oldText, oldElements), done.left)]

\* ------------------------------------- TextTransition.sequentialTransition
\* the element bookkeeping of sequentialTransition: every character of
\* newText gets a created element, every old element fades out
sequentialBuild(newText, oldElements, nextId) ==
  LET fresh == [k \in DOMAIN newText |-> nextId + k - 1]
  IN [newElements |-> fresh,
      reused |-> <<>>,
      created |-> [k \in DOMAIN newText |->
                     [element |-> fresh[k], char |-> newText[k], index |-> k - 1]],
      elementsToAdd |-> fresh,
      elementsToRemove |-> oldElements]

\* --------------------------------------------- TextTransition.transition
Strategies == {"smart", "sequential", "replace"}

\* the strategy dispatch of the rebuilding TextTransition.transition
transitionBuild(strategy, oldText, newText, oldElements, nextId) ==
  IF strategy = "sequential"
  THEN sequentialBuild(newText, oldElements, nextId)
  ELSE smartBuild(oldText, newText, oldElements, nextId)

\* the strategy dispatch of the offset-based TextTransition.transition
transitionMapping(strategy, oldText, newText, oldElements) ==
  IF strategy = "smart" THEN smartMapping(oldText, newText, oldElements)
  ELSE IF strategy = "sequential" THEN sequentialMapping(oldText, newText, oldElements)
  ELSE sequentialMapping(oldText, newText, oldElements)

\* TextTransition.replace
replaceBuild(newText, oldElements, nextId) ==
  sequentialBuild(newText, oldElements, nextId)

\* ======================================================================
\* The facade (CharWrapper), the elements and the animation timelines
\* ======================================================================
\* dom            the container: its text node (the original markup, while
\*                it is still there) and its child elements in order
\* config         the configuration of the instance: which facade class it
\*                is ("ts": config.ts, "js": CharWrapper.js) and wrap.words
\* rootElement    CharWrapper.#rootElement: "container", or "null" once
\*                the instance is destroyed
\* originalContent CharWrapper.#originalContent, the text of the markup
\*                captured at construction
\* originalText   CharWrapper.#originalText, the text snapshot
\* isWrapped      CharWrapper.#isWrapped
\* wrappedChars   CharWrapper.#wrappedElements.chars
\* wrappedWords   CharWrapper.#wrappedElements.words
\* groups         CharWrapper.#wrappedElements.groups[name] for the one
\*                configured group; empty when groups is {}
\* counters       WrapperFactory.#counters, with enumerate.chars and
\*                enumerate.words on
\* elems          every element created so far: elems[id] holds its class
\*                ("char", "word" or "space"), its own text and, for a
\*                word, its character elements
\* tls            the timelines created by transitionTo, oldest first
\* now            the time of the animation driver's last tick
\* ctx            where application code could run now.  ctx.in is "idle"
\*                between ticks, "tick" while the driver is in the middle
\*                of a tick, "callback" inside the completion callback of
\*                timeline ctx.tl
\* lastOp         the call or timeline step performed last, the timeline
\*                it belongs to and how it ended
\* plan           the planning functions' input and results, when they are
\*                applied on their own
VARIABLES dom, config, rootElement, originalContent, originalText, isWrapped,
          wrappedChars, wrappedWords, groups, counters, elems, tls, now, ctx, lastOp, plan

\* longest text in the container and longest text passed to transitionTo
MaxText == 2
\* most calls of transitionTo in one run
MaxTransitions == 2
\* removeDuration and addDuration range over 20, ..., 20 * MaxDur ticks
MaxDur == 1
\* stagger ranges over 0 .. MaxStagger ticks
MaxStagger == 1

\* life cycle: longest container text, most elements created before another
\* wrap, most transitions
MaxLifeText == 3

MaxCreated == 6

MaxLifeTransitions == 1

\* longest text given to the grouper on its own
MaxCtxLen == 4

\* characters of the container text and of the texts passed to transitionTo
DomChars == {"a", " "}

DomTexts == SeqsUpTo(DomChars, MaxText)

\* config.replaceSpaceWith, the non-breaking space
replaceSpaceWith == "nbsp"

\* ------------------------------------------------------ normalizeWhitespace
\* /\s/
IsSpace(c) == c \in {" ", "\t", "\n", "\r", replaceSpaceWith}

\* /[\r\n\t]/
IsBreak(c) == c \in {"\t", "\n", "\r"}

RECURSIVE DropBreaks(_)
DropBreaks(t) == IF t /= <<>> /\ IsBreak(Head(t)) THEN DropBreaks(Tail(t)) ELSE t

RECURSIVE DropSpaces(_)
DropSpaces(t) == IF t /= <<>> /\ IsSpace(Head(t)) THEN DropSpaces(Tail(t)) ELSE t

\* text.replace(/[\r\n\t]+/g, ' ')
RECURSIVE ReplaceBreaks(_)
ReplaceBreaks(t) ==
  IF t = <<>> THEN <<>>
  ELSE IF IsBreak(Head(t)) THEN <<" ">> \o ReplaceBreaks(DropBreaks(t))
  ELSE <<Head(t)>> \o ReplaceBreaks(Tail(t))

\* .replace(/\s{2,}/g, ' ')
RECURSIVE CollapseSpaces(_)
CollapseSpaces(t) ==
  IF t = <<>> THEN <<>>
  ELSE IF Len(t) >= 2 /\ IsSpace(t[1]) /\ IsSpace(t[2])
       THEN <<" ">> \o CollapseSpaces(DropSpaces(t))
  ELSE <<Head(t)>> \o CollapseSpaces(Tail(t))

RECURSIVE TrimEnd(_)
TrimEnd(t) ==
  IF t /= <<>> /\ IsSpace(t[Len(t)]) THEN TrimEnd(SubSeq(t, 1, Len(t) - 1)) ELSE t

\* String.prototype.trim
Trim(t) == TrimEnd(DropSpaces(t))

normalizeWhitespace(text, trim) ==
  LET normalized == CollapseSpaces(ReplaceBreaks(text))
  IN IF trim THEN Trim(normalized) ELSE normalized

\* ---------------------------------------- WrapperFactory.createCharElement
\* the textContent of the element created for char
charTextContent(char) == IF char = " " THEN replaceSpaceWith ELSE char

\* padNumber: String(num).padStart(3, '0'), digit by digit
padNumber(num) ==
  IF num < 1000 THEN <<num \div 100, (num \div 10) % 10, num % 10>>
  ELSE <<num \div 1000, (num \div 100) % 10, (num \div 10) % 10, num % 10>>

\* enumerate.includeSpaces and includeSpecialChars are off: a space gets
\* no number
shouldEnumerateChar(char) == char /= " "

\* a variant that numbers from one
positionalFromOne(count) == padNumber(count + 1)

\* the suffix of the positional class the factory gives the element it
\* creates when its counter stands at count: padNumber(this.#counters.char++)
positional(count) == padNumber(count)

\* the element created for char when the character counter stands at
\* count; pos holds the suffixes of its positional classes
createCharElement(char, count) ==
  [cls |-> "char", text |-> charTextContent(char), kids |-> <<>>,
   pos |-> IF shouldEnumerateChar(char) THEN {positional(count)} ELSE {}]

\* ---------------------------------------- WrapperFactory.createWordElement
\* the word element created when the word counter stands at count; a word
\* of spaces only gets no number
createWordElement(word, charElements, count) ==
  [cls |-> "word", text |-> "", kids |-> charElements,
   pos |-> IF \E k \in DOMAIN word : word[k] /= " " THEN {padNumber(count)} ELSE {}]

\* --------------------------------------- WrapperFactory.createSpaceElement
\* a variant whose spacer holds a plain space
createSpaceElementPlain == [cls |-> "space", text |-> " ", kids |-> <<>>, pos |-> {}]

createSpaceElement == [cls |-> "space", text |-> replaceSpaceWith, kids |-> <<>>, pos |-> {}]

RECURSIVE Concat(_)
Concat(seqs) == IF seqs = <<>> THEN <<>> ELSE Head(seqs) \o Concat(Tail(seqs))

\* element.textContent, character by character
TextOf(E, id) ==
  IF E[id].cls = "word" THEN [k \in DOMAIN E[id].kids |-> E[E[id].kids[k]].text]
  ELSE <<E[id].text>>

\* the text the container shows: its text node, then its children
Rendered(d, E) == d.text \o Concat([k \in DOMAIN d.kids |-> TextOf(E, d.kids[k])])

\* a call or step, the timeline it belongs to (0: none) and its outcome
Op(op, tl, res) == [op |-> op, tl |-> tl, res |-> res]

\* ------------------------------------------------------------ timelines
\* a tween on a timeline: targets[i] starts at start + (i-1) * stagger and
\* runs for duration.  live holds the indices of the targets whose tween has
\* not been cancelled; phase is "pending", "running", "done" or "killed"
\* (every target cancelled).  child is the tween's rank among the children
\* of its timeline, in insertion order.
Tween(kind, child, targets, start, duration, stagger) ==
  [kind |-> kind, child |-> child, targets |-> targets, start |-> start,
   duration |-> duration, stagger |-> stagger,
   live |-> DOMAIN targets, phase |-> "pending"]

MinOf(S) == CHOOSE x \in S : \A y \in S : x <= y

MaxOf(S) == CHOOSE x \in S : \A y \in S : y <= x

\* when the first target that is still animated starts
TweenBeginAt(tw) ==
  IF tw.live = {} THEN tw.start ELSE tw.start + (MinOf(tw.live) - 1) * tw.stagger

\* when the last target that is still animated ends
TweenEndAt(tw) ==
  IF tw.live = {} THEN tw.start + tw.duration
  ELSE tw.start + (MaxOf(tw.live) - 1) * tw.stagger + tw.duration

\* when a tween over n targets added at position 0 ends
StaggeredEnd(n, duration, stagger) ==
  IF n > 0 THEN duration + stagger * (n - 1) ELSE 0

\* a variant that rebuilds only when the fade-out is over
smartPatchAtLate(removeDuration) == removeDuration

\* smartTransition: the position of the rebuild callback, removeDuration * 0.3
smartPatchAt(removeDuration) == (removeDuration * 3) \div 10

\* smartTransition: the position of the fade-in, removeDuration * 0.5
smartAddAt(removeDuration) == removeDuration \div 2

\* sequentialTransition: the position of the clear-and-append callback
sequentialPatchAt(removeDuration) == removeDuration

\* sequentialTransition: the fade-in goes to the end of the timeline
\* plus removeDuration * 0.05
sequentialAddAt(n, removeDuration, stagger) ==
  Max2(StaggeredEnd(n, removeDuration, stagger), sequentialPatchAt(removeDuration))
    + removeDuration \div 20

\* what smartTransition puts on the timeline created at time t
smartSchedule(b, t, o) ==
  [method |-> "smartTransition",
   patchAt |-> t + smartPatchAt(o.removeDuration),
   tweens |->
     (IF Len(b.elementsToRemove) > 0
      THEN <<Tween("remove", 1, b.elementsToRemove, t, o.removeDuration, o.stagger)>>
      ELSE <<>>)
     \o
     (IF Len(b.elementsToAdd) > 0
      THEN <<Tween("add", 3, b.elementsToAdd, t + smartAddAt(o.removeDuration),
                   o.addDuration, o.stagger)>>
      ELSE <<>>)]

\* what sequentialTransition puts on the timeline created at time t
sequentialSchedule(b, oldElements, t, o) ==
  [method |-> "sequentialTransition",
   patchAt |-> t + sequentialPatchAt(o.removeDuration),
   tweens |->
     (IF Len(oldElements) > 0
      THEN <<Tween("remove", 1, oldElements, t, o.removeDuration, o.stagger)>>
      ELSE <<>>)
     \o
     <<Tween("add", 3, b.newElements,
             t + sequentialAddAt(Len(oldElements), o.removeDuration, o.stagger),
             o.addDuration, o.stagger)>>]

transitionSchedule(b, oldElements, t, o) ==
  IF o.strategy = "sequential"
  THEN sequentialSchedule(b, oldElements, t, o)
  ELSE smartSchedule(b, t, o)

\* gsap.killTweensOf(oldElements): every tween on one of the targets that
\* has not finished is cancelled for that target, on whatever timeline
killTweensOf(T, targets) ==
  LET hit == {targets[k] : k \in DOMAIN targets}
      KillIn(tw) ==
        IF tw.phase \notin {"pending", "running"} THEN tw
        ELSE LET left == {i \in tw.live : tw.targets[i] \notin hit}
             IN IF left = tw.live THEN tw
                ELSE [tw EXCEPT !.live = left,
                               !.phase = IF left = {} THEN "killed" ELSE @]
  IN [k \in DOMAIN T |->
       [T[k] EXCEPT !.tweens = [c \in DOMAIN T[k].tweens |-> KillIn(T[k].tweens[c])]]]

Event(time, k, child, phase, what, c) ==
  [time |-> time, tl |-> k, child |-> child, phase |-> phase, what |-> what, tw |-> c]

\* the steps timeline k still has to take, apart from its completion
WorkEvents(T, k) ==
  {Event(TweenBeginAt(T[k].tweens[c]), k, T[k].tweens[c].child, 0, "begin", c) :
     c \in {c \in DOMAIN T[k].tweens : T[k].tweens[c].phase = "pending"}}
  \cup
  {Event(TweenEndAt(T[k].tweens[c]), k, T[k].tweens[c].child, 1, "end", c) :
     c \in {c \in DOMAIN T[k].tweens : T[k].tweens[c].phase = "running"}}
  \cup
  (IF T[k].patched THEN {} ELSE {Event(T[k].patchAt, k, 2, 0, "call", 0)})

\* the end of timeline k: the latest end of the children it still has
TimelineEnd(T, k) ==
  MaxOf({T[k].patchAt}
        \cup {TweenEndAt(T[k].tweens[c]) :
                c \in {c \in DOMAIN T[k].tweens : T[k].tweens[c].phase /= "killed"}})

\* every step some timeline still has to take
Pending(T) ==
  UNION {
    IF T[k].completed THEN {}
    ELSE LET work == WorkEvents(T, k)
         IN IF work /= {} THEN work
            ELSE {Event(TimelineEnd(T, k), k, 4, 0, "complete", 0)}
    : k \in DOMAIN T }

\* the driver renders by time; at one time timeline by timeline in creation
\* order, within a timeline child by child in insertion order
Earlier(e, f) ==
  \/ e.time < f.time
  \/ e.time = f.time /\ e.tl < f.tl
  \/ e.time = f.time /\ e.tl = f.tl /\ e.child < f.child
  \/ e.time = f.time /\ e.tl = f.tl /\ e.child = f.child /\ e.phase < f.phase

NextEvent(T) ==
  LET P == Pending(T)
  IN CHOOSE e \in P : \A f \in P : f = e \/ Earlier(e, f)

\* the context after a timeline step taken at time t
CtxAfter(T, t, e) ==
  IF e.what = "complete" THEN [in |-> "callback", tl |-> e.tl]
  ELSE IF \E f \in Pending(T) : f.time <= t THEN [in |-> "tick", tl |-> 0]
  ELSE [in |-> "idle", tl |-> 0]

\* the container after rootElement.innerHTML = '' and the appendChild loop
PatchedDom(d, newElements) == [text |-> <<>>, kids |-> newElements]

\* what a text looks like once every character has its element
Display(text) == [k \in DOMAIN text |-> charTextContent(text[k])]

\* rootElement.querySelectorAll('.char'): the character elements in the
\* container, in document order
queryChars(d, E) ==
  Concat([k \in DOMAIN d.kids |->
            IF E[d.kids[k]].cls = "char" THEN <<d.kids[k]>>
            ELSE IF E[d.kids[k]].cls = "word" THEN E[d.kids[k]].kids
            ELSE <<>>])

\* durations are positive: what the animation library does with a tween of
\* no duration at the playhead is not part of this repository
Durations == {20 * k : k \in 1..MaxDur}

\* the options of one transitionTo call, defaults filled in
Options ==
  [strategy : Strategies, removeDuration : Durations, addDuration : Durations,
   stagger : 0..MaxStagger]

\* no planning function is applied on its own
NoPlan == [pc |-> "none"]

fvars ==
  <<dom, config, rootElement, originalContent, originalText, isWrapped,
    wrappedChars, wrappedWords, groups, counters, elems, tls, now, ctx, lastOp>>

\* the two facades of the repository, and the wrap.words setting
Configs == [facade : {"ts", "js"}, words : BOOLEAN]

\* the TypeScript facade with the default wrap mode, characters only
DefaultConfig == [facade |-> "ts", words |-> FALSE]

\* --------------------------------------------------------- DOMProcessor
\* text.split(' ')
RECURSIVE Split(_)
Split(text) ==
  IF \A k \in DOMAIN text : ~IsSpace(text[k]) THEN <<text>>
  ELSE LET i == CHOOSE k \in DOMAIN text :
                  IsSpace(text[k]) /\ \A j \in 1..(k - 1) : ~IsSpace(text[j])
       IN <<SubSeq(text, 1, i - 1)>> \o Split(SubSeq(text, i + 1, Len(text)))

\* how many of the characters take a number from the character counter
RECURSIVE Enumerated(_)
Enumerated(text) ==
  IF text = <<>> THEN 0
  ELSE (IF shouldEnumerateChar(Head(text)) THEN 1 ELSE 0) + Enumerated(Tail(text))

\* the elements createCharElement makes for the characters of text, one
\* after the other, when the character counter stands at count
createdChars(text, count) ==
  [k \in DOMAIN text |-> createCharElement(text[k], count + Enumerated(SubSeq(text, 1, k - 1)))]

\* wrapChars: one element per character; nextId is the first free element,
\* c the factory's counters
wrapChars(text, nextId, c) ==
  [created |-> createdChars(text, c.char),
   words |-> <<>>,
   chars |-> [k \in DOMAIN text |-> nextId + k - 1],
   counters |-> [c EXCEPT !.char = @ + Enumerated(text)]]

\* the forEach of wrapWords from word number index on: the characters of
\* the word, the word element around them, a space element unless the word
\* is the last
RECURSIVE wrapWordsFrom(_, _, _, _)
wrapWordsFrom(words, index, nextId, c) ==
  IF index > Len(words)
  THEN [created |-> <<>>, words |-> <<>>, chars |-> <<>>, counters |-> c]
  ELSE LET word == words[index]
           cs == wrapChars(word, nextId, c)
           wordId == nextId + Len(word)
           more == index < Len(words)
           numbered == \E k \in DOMAIN word : word[k] /= " "
           rest == wrapWordsFrom(words, index + 1,
                                 IF more THEN wordId + 2 ELSE wordId + 1,
                                 [cs.counters EXCEPT !.word = IF numbered THEN @ + 1 ELSE @])
       IN [created |-> cs.created \o <<createWordElement(word, cs.chars, c.word)>>
                         \o (IF more THEN <<createSpaceElement>> ELSE <<>>)
                         \o rest.created,
           words |-> <<wordId>> \o (IF more THEN <<wordId + 1>> ELSE <<>>) \o rest.words,
           chars |-> cs.chars \o rest.chars,
           counters |-> rest.counters]

wrapWords(text, nextId, c) ==
  IF text = <<>>
  THEN [created |-> <<>>, words |-> <<>>, chars |-> <<>>, counters |-> c]
  ELSE wrapWordsFrom(Split(text), 1, nextId, c)

\* processTextNode on the normalized text of a text node (wrap.chars is on)
processTextNode(text, cfg, nextId, c) ==
  IF cfg.words THEN wrapWords(text, nextId, c) ELSE wrapChars(text, nextId, c)

\* ------------------------------------------------------ CharacterGrouper
\* the one configured group is the regular expression /a/
groupTest(s) == s = "a"

\* originalText[index] || char.textContent
groupText(chars, text, E, i) ==
  IF i <= Len(text) THEN text[i] ELSE E[chars[i]].text

RECURSIVE filterFrom(_, _, _, _)
filterFrom(chars, text, E, i) ==
  IF i > Len(chars) THEN <<>>
  ELSE (IF groupTest(groupText(chars, text, E, i)) THEN <<chars[i]>> ELSE <<>>)
       \o filterFrom(chars, text, E, i + 1)

\* #filterCharacters with a RegExp: chars.filter by the character of
\* originalText at the element's index
filterCharacters(chars, text, E) == filterFrom(chars, text, E, 1)

\* groupCharacters; the legacy facade has no grouper
groupCharacters(chars, text, E, cfg) ==
  IF cfg.facade = "ts" THEN filterCharacters(chars, text, E) ELSE <<>>

\* ---------------------------------------------------------- the facade
\* the fields wrap, unwrap, rewrap and destroy work on
Facade ==
  [dom |-> dom, isWrapped |-> isWrapped, chars |-> wrappedChars,
   words |-> wrappedWords, groups |-> groups, counters |-> counters,
   elems |-> elems, res |-> "ok"]

Becomes(f) ==
  /\ dom' = f.dom
  /\ isWrapped' = f.isWrapped
  /\ wrappedChars' = f.chars
  /\ wrappedWords' = f.words
  /\ groups' = f.groups
  /\ counters' = f.counters
  /\ elems' = f.elems

\* a variant that lets the counters stand
resetCountersNot(c) == c

\* WrapperFactory.resetCounters
resetCounters(c) == [char |-> 0, word |-> 0]

\* a variant of the guard of wrap that never finds the instance wrapped
alreadyWrappedNever(f) == FALSE

\* the guard of wrap
alreadyWrapped(f) == f.isWrapped

\* a variant of unwrap that leaves the container as it is
restoredKeep(d) == d

\* rootElement.innerHTML = originalContent
restored(d) == [text |-> originalContent, kids |-> <<>>]

\* wrap.  A destroyed instance has no root element and no factory: the
\* call throws.  A text node that is empty after normalization is not a
\* text node for findTextNodes; otherwise it is replaced by the elements of
\* its normalized text.
wrap(f) ==
  IF alreadyWrapped(f) THEN [f EXCEPT !.res = "already wrapped"]
  ELSE IF rootElement = "null" THEN [f EXCEPT !.res = "TypeError"]
  ELSE LET text == normalizeWhitespace(f.dom.text, TRUE)
           r == processTextNode(text, config, Len(f.elems) + 1, resetCounters(f.counters))
           E == f.elems \o r.created
       IN [dom |-> IF text = <<>> THEN f.dom
                   ELSE [text |-> <<>>,
                         kids |-> IF Len(r.words) > 0 THEN r.words ELSE r.chars],
           isWrapped |-> TRUE,
           chars |-> r.chars,
           words |-> r.words,
           groups |-> groupCharacters(r.chars, originalText, E, config),
           counters |-> r.counters,
           elems |-> E,
           res |-> "ok"]

\* unwrap
unwrap(f) ==
  IF ~f.isWrapped THEN [f EXCEPT !.res = "not wrapped"]
  ELSE [f EXCEPT !.dom = restored(f.dom), !.chars = <<>>, !.words = <<>>,
                 !.groups = <<>>, !.isWrapped = FALSE, !.res = "ok"]

\* what getChars and getWords find after destroy: the legacy facade has set
\* #wrappedElements to null
destroyedRead(cfg) == IF cfg.facade = "js" THEN "TypeError" ELSE "ok"

\* ------------------------------------------------ CharWrapper.constructor
\* the container holds plain text; originalContent is its markup and the
\* snapshot is its textContent
InitWith(texts, configs) ==
  /\ \E text \in texts :
       /\ dom = [text |-> text, kids |-> <<>>]
       /\ originalContent = text
       /\ originalText = text
  /\ config \in configs
  /\ rootElement = "container"
  /\ isWrapped = FALSE
  /\ wrappedChars = <<>>
  /\ wrappedWords = <<>>
  /\ groups = <<>>
  /\ counters = [char |-> 0, word |-> 0]
  /\ elems = <<>>
  /\ tls = <<>>
  /\ now = 0
  /\ ctx = [in |-> "idle", tl |-> 0]
  /\ lastOp = Op("new", 0, "ok")
  /\ plan = NoPlan

Init == InitWith(DomTexts, {DefaultConfig})

\* ------------------------------------------------------- CharWrapper.wrap
\* (the container holds text only: wrapping a container that a rebuild
\* callback filled after unwrap is outside the model)
Wrap ==
  /\ ctx.in /= "tick"
  /\ isWrapped \/ dom.kids = <<>>
  /\ LET f == wrap(Facade)
     IN /\ Becomes(f)
        /\ lastOp' = Op("wrap", 0, f.res)
  /\ UNCHANGED <<config, rootElement, originalContent, originalText, tls, now, ctx>>

\* ----------------------------------------------------- CharWrapper.unwrap
Unwrap ==
  /\ ctx.in /= "tick"
  /\ LET f == unwrap(Facade)
     IN /\ Becomes(f)
        /\ lastOp' = Op("unwrap", 0, f.res)
  /\ UNCHANGED <<config, rootElement, originalContent, originalText, tls, now, ctx>>

\* ----------------------------------------------------- CharWrapper.rewrap
Rewrap ==
  /\ ctx.in /= "tick"
  /\ isWrapped \/ dom.kids = <<>>
  /\ LET f == wrap(unwrap(Facade))
     IN /\ Becomes(f)
        /\ lastOp' = Op("rewrap", 0, f.res)
  /\ UNCHANGED <<config, rootElement, originalContent, originalText, tls, now, ctx>>

\* ---------------------------------------------------- CharWrapper.destroy
\* unwrap if wrapped, then drop the references.  The legacy facade calls
\* its processor without a null check, so its second destroy throws.
Destroy ==
  /\ ctx.in /= "tick"
  /\ IF config.facade = "js" /\ rootElement = "null"
     THEN /\ lastOp' = Op("destroy", 0, "TypeError")
          /\ UNCHANGED <<dom, isWrapped, wrappedChars, wrappedWords, groups,
                         counters, elems, rootElement>>
     ELSE LET f == unwrap(Facade)
          IN /\ Becomes([f EXCEPT !.chars = <<>>, !.words = <<>>, !.groups = <<>>])
             /\ rootElement' = "null"
             /\ lastOp' = Op("destroy", 0, "ok")
  /\ UNCHANGED <<config, originalContent, originalText, tls, now, ctx>>

\* ------------------------------------------ CharWrapper.getChars, getWords
\* [...this.#wrappedElements.chars]
GetChars ==
  /\ ctx.in /= "tick"
  /\ lastOp' = Op("getChars", 0,
                  IF rootElement = "null" THEN destroyedRead(config) ELSE "ok")
  /\ UNCHANGED <<dom, config, rootElement, originalContent, originalText, isWrapped,
                 wrappedChars, wrappedWords, groups, counters, elems, tls, now, ctx>>

GetWords ==
  /\ ctx.in /= "tick"
  /\ lastOp' = Op("getWords", 0,
                  IF rootElement = "null" THEN destroyedRead(config) ELSE "ok")
  /\ UNCHANGED <<dom, config, rootElement, originalContent, originalText, isWrapped,
                 wrappedChars, wrappedWords, groups, counters, elems, tls, now, ctx>>

\* a variant of the guard of transitionTo and animate that lets every call pass
notWrappedNever == FALSE

\* the guard of transitionTo and animate
notWrapped == ~isWrapped

\* ---------------------------------------------------- CharWrapper.animate
\* not wrapped: null.  Wrapped: the preset tweens visual properties of the
\* elements, which are not part of the state.
Animate ==
  /\ config.facade = "ts"
  /\ ctx.in /= "tick"
  /\ lastOp' = Op("animate", 0, IF notWrapped THEN "null" ELSE "tween")
  /\ UNCHANGED <<dom, config, rootElement, originalContent, originalText, isWrapped,
                 wrappedChars, wrappedWords, groups, counters, elems, tls, now, ctx>>

\* a variant that tags a reused element with its new index as it is
retagZeroBased(newIndex) == padNumber(newIndex)

\* the suffix of the class smartTransition adds to the element it reuses
\* at newIndex: String(newIndex + 1).padStart(3, '0')
retag(newIndex) == padNumber(newIndex + 1)

\* smartTransition on the elements it reuses: the classes matching
\* /char-\d+/ are removed and char-<retag(newIndex)> is added
retagged(E, reused) ==
  [id \in DOMAIN E |->
     IF \E r \in DOMAIN reused : reused[r].element = id
     THEN LET r == CHOOSE r \in DOMAIN reused : reused[r].element = id
          IN [E[id] EXCEPT !.pos = {retag(reused[r].newIndex)}]
     ELSE E[id]]

\* ----------------------------------------------- CharWrapper.transitionTo
\* not wrapped: null.  Otherwise TextTransition.transition: cancel the
\* tweens of the cached elements, do the element bookkeeping of the
\* strategy (new elements come from the facade's factory, whose character
\* counter goes on counting) and schedule the timeline.  (The visual
\* properties gsap.set gives the elements are not part of the state.)
TransitionTo(newText, o) ==
  /\ config.facade = "ts"
  /\ ctx.in /= "tick"
  /\ IF notWrapped \/ rootElement = "null"
     THEN /\ lastOp' = Op("transitionTo", 0, "null")
          /\ UNCHANGED <<elems, tls, counters>>
     ELSE /\ Len(tls) < MaxTransitions
          /\ LET oldElements == wrappedChars
                 kept == IF Len(oldElements) > 0 THEN killTweensOf(tls, oldElements) ELSE tls
                 b == transitionBuild(o.strategy, originalText, newText, oldElements,
                                      Len(elems) + 1)
                 sch == transitionSchedule(b, oldElements, now, o)
                 chars == [k \in DOMAIN b.created |-> b.created[k].char]
             IN /\ elems' = retagged(elems, b.reused) \o createdChars(chars, counters.char)
                /\ counters' =
                     [counters EXCEPT !.char =
                        @ + Enumerated(chars)]
                /\ tls' = Append(kept,
                     [newText |-> newText, method |-> sch.method,
                      oldText |-> originalText, oldElements |-> oldElements,
                      domAtCall |-> dom,
                      calledIn |-> IF ctx.in = "callback" THEN ctx.tl ELSE 0,
                      prevPending |-> \E k \in DOMAIN tls : ~tls[k].completed,
                      newElements |-> b.newElements,
                      patchAt |-> sch.patchAt, tweens |-> sch.tweens,
                      patched |-> FALSE, completed |-> FALSE])
          /\ lastOp' = Op("transitionTo", Len(tls) + 1, "timeline")
  /\ UNCHANGED <<dom, config, rootElement, originalContent, originalText, isWrapped,
                 wrappedChars, wrappedWords, groups, now, ctx>>

\* ------------------------------------------------------ the timeline steps
Due == Pending(tls) /= {}

\* a tween starts to change its first target
TweenBegin ==
  /\ Due
  /\ LET e == NextEvent(tls)
     IN /\ e.what = "begin"
        /\ tls' = [tls EXCEPT ![e.tl].tweens[e.tw].phase = "running"]
        /\ now' = Max2(now, e.time)
        /\ ctx' = CtxAfter(tls', now', e)
        /\ lastOp' = Op("tweenBegin", e.tl, "ok")
  /\ UNCHANGED <<dom, config, rootElement, originalContent, originalText, isWrapped,
                 wrappedChars, wrappedWords, groups, counters, elems>>

\* a tween has brought its last target to the end value
TweenEnd ==
  /\ Due
  /\ LET e == NextEvent(tls)
     IN /\ e.what = "end"
        /\ tls' = [tls EXCEPT ![e.tl].tweens[e.tw].phase = "done"]
        /\ now' = Max2(now, e.time)
        /\ ctx' = CtxAfter(tls', now', e)
        /\ lastOp' = Op("tweenEnd", e.tl, "ok")
  /\ UNCHANGED <<dom, config, rootElement, originalContent, originalText, isWrapped,
                 wrappedChars, wrappedWords, groups, counters, elems>>

\* the timeline.call callback: clear the container and append newElements.
\* The callback holds the container itself, not the facade's reference.
DomPatch ==
  /\ Due
  /\ LET e == NextEvent(tls)
     IN /\ e.what = "call"
        /\ dom' = PatchedDom(dom, tls[e.tl].newElements)
        /\ tls' = [tls EXCEPT ![e.tl].patched = TRUE]
        /\ now' = Max2(now, e.time)
        /\ ctx' = CtxAfter(tls', now', e)
        /\ lastOp' = Op("patch", e.tl, "ok")
  /\ UNCHANGED <<config, rootElement, originalContent, originalText, isWrapped,
                 wrappedChars, wrappedWords, groups, counters, elems>>

\* a variant that keeps the snapshot it has
completedTextStale(newText) == originalText

\* the snapshot the facade's onComplete stores
completedText(newText) == newText

\* the timeline's onComplete, which is the facade's: store the new text,
\* re-query the character elements, classify them against the new text,
\* then call the user's callback.  On a destroyed instance the query
\* throws after the snapshot is stored.
OnComplete ==
  /\ Due
  /\ LET e == NextEvent(tls)
     IN /\ e.what = "complete"
        /\ originalText' = completedText(tls[e.tl].newText)
        /\ IF rootElement = "null"
           THEN /\ UNCHANGED <<wrappedChars, groups>>
                /\ lastOp' = Op("onComplete", e.tl, "TypeError")
           ELSE LET newChars == queryChars(dom, elems)
                IN /\ wrappedChars' = newChars
                   /\ groups' = groupCharacters(newChars, tls[e.tl].newText, elems, config)
                /\ lastOp' = Op("onComplete", e.tl, "ok")
        /\ tls' = [tls EXCEPT ![e.tl].completed = TRUE]
        /\ now' = Max2(now, e.time)
        /\ ctx' = CtxAfter(tls', now', e)
  /\ UNCHANGED <<dom, config, rootElement, originalContent, isWrapped,
                 wrappedWords, counters, elems>>


\* ======================================================================
\* The planning functions applied to every bounded input
\* ======================================================================
vars ==
  <<dom, config, rootElement, originalContent, originalText, isWrapped,
    wrappedChars, wrappedWords, groups, counters, elems, tls, now, ctx, lastOp, plan>>

PlanTexts == SeqsUpTo(PlanChars, MaxLen)

\* inputs: any pair of texts, any number of old elements, any strategy;
\* no facade is involved
PlanInit ==
  /\ dom = [text |-> <<>>, kids |-> <<>>]
  /\ config = DefaultConfig
  /\ rootElement = "container"
  /\ originalContent = <<>>
  /\ originalText = <<>>
  /\ isWrapped = FALSE
  /\ wrappedChars = <<>>
  /\ wrappedWords = <<>>
  /\ groups = <<>>
  /\ counters = [char |-> 0, word |-> 0]
  /\ elems = <<>>
  /\ tls = <<>>
  /\ now = 0
  /\ ctx = [in |-> "idle", tl |-> 0]
  /\ lastOp = Op("plan", 0, "ok")
  /\ \E oldText \in PlanTexts, newText \in PlanTexts, n \in 0..MaxElems, st \in Strategies :
    plan = [pc |-> "input", oldText |-> oldText, newText |-> newText,
            oldElements |-> FirstElems(n), strategy |-> st]

\* the mapping step of the offset-based TextTransition.transition
RunMapping ==
  /\ plan.pc = "input"
  /\ plan' = [pc |-> "mapped", oldText |-> plan.oldText, newText |-> plan.newText,
              oldElements |-> plan.oldElements, strategy |-> plan.strategy,
              mapping |-> transitionMapping(plan.strategy, plan.oldText, plan.newText,
                                            plan.oldElements)]

\* the element bookkeeping of the rebuilding TextTransition.transition
RunBuild ==
  /\ plan.pc = "mapped"
  /\ plan' = [pc |-> "built", oldText |-> plan.oldText, newText |-> plan.newText,
              oldElements |-> plan.oldElements, strategy |-> plan.strategy,
              mapping |-> plan.mapping,
              build |-> transitionBuild(plan.strategy, plan.oldText, plan.newText,
                                        plan.oldElements, Len(plan.oldElements) + 1),
              replaced |-> replaceBuild(plan.newText, plan.oldElements,
                                        Len(plan.oldElements) + 1)]

PlanNext == (RunMapping \/ RunBuild) /\ UNCHANGED fvars

SpecPlan == PlanInit /\ [][PlanNext]_vars

\* ======================================================================
\* The grouper's word context applied to every bounded text
\* ======================================================================
\* #getWordBoundaries from position i on: the position after every space
\* that is not the last character
RECURSIVE boundariesFrom(_, _)
boundariesFrom(text, i) ==
  IF i >= Len(text) THEN <<>>
  ELSE (IF text[i + 1] = " " /\ i + 1 < Len(text) THEN <<i + 1>> ELSE <<>>)
       \o boundariesFrom(text, i + 1)

\* #getWordBoundaries: 0, then the position after every such space
getWordBoundaries(text) == <<0>> \o boundariesFrom(text, 0)

\* #getWordIndex: the last boundary that is not after charIndex
RECURSIVE wordIndexFrom(_, _, _)
wordIndexFrom(charIndex, wordBoundaries, i) ==
  IF i < 0 THEN 0
  ELSE IF charIndex >= wordBoundaries[i + 1] THEN i
  ELSE wordIndexFrom(charIndex, wordBoundaries, i - 1)

getWordIndex(charIndex, wordBoundaries) ==
  wordIndexFrom(charIndex, wordBoundaries, Len(wordBoundaries) - 1)

\* #createContext
createContext(index, wordBoundaries, text) ==
  LET wordIndex == getWordIndex(index, wordBoundaries)
      wordStart == wordBoundaries[wordIndex + 1]
      wordEnd == IF wordIndex + 2 <= Len(wordBoundaries)
                 THEN wordBoundaries[wordIndex + 2] - 1
                 ELSE Len(text) - 1
  IN [index |-> index,
      isFirstInWord |-> index = wordStart,
      isLastInWord |-> (index = wordEnd \/ (index + 1 < Len(text) /\ text[index + 2] = " ")),
      wordIndex |-> wordIndex]

CtxTexts == SeqsUpTo(DomChars, MaxCtxLen) \ {<<>>}

\* input: any text; no facade is involved
CtxInit ==
  /\ dom = [text |-> <<>>, kids |-> <<>>]
  /\ config = DefaultConfig
  /\ rootElement = "container"
  /\ originalContent = <<>>
  /\ originalText = <<>>
  /\ isWrapped = FALSE
  /\ wrappedChars = <<>>
  /\ wrappedWords = <<>>
  /\ groups = <<>>
  /\ counters = [char |-> 0, word |-> 0]
  /\ elems = <<>>
  /\ tls = <<>>
  /\ now = 0
  /\ ctx = [in |-> "idle", tl |-> 0]
  /\ lastOp = Op("context", 0, "ok")
  /\ \E text \in CtxTexts : plan = [pc |-> "text", text |-> text]

\* the forEach of #filterCharacters at one index: the context the custom
\* predicate is given
RunContext(index) ==
  /\ plan.pc = "text"
  /\ index < Len(plan.text)
  /\ plan' = [pc |-> "context", text |-> plan.text,
              context |-> createContext(index, getWordBoundaries(plan.text), plan.text)]

CtxNext == (\E index \in 0..(MaxCtxLen - 1) : RunContext(index)) /\ UNCHANGED fvars

SpecCtx == CtxInit /\ [][CtxNext]_vars

\* ---------------------------------------------------------------------------
\* DataAttributeStrategy.select (SelectionStrategy.ts): the elements carrying
\* the sub-set attribute, in document order, each with the value of its sub-set
\* name and of its custom-order attribute ("none" when the attribute is absent)

MaxSelect == 3

SubSetNames == {"x", "_exclude_"}

CustomOrders == {"none", "abc", "-1", "1"}

\* an option or a config field: "undefined" when absent
OrderedValues == {"undefined", "true", "false"}

\* DEFAULT_CONFIG.processing carries no ordered field
DefaultOrdered == "undefined"

\* deepMerge(DEFAULT_CONFIG, userConfig) at processing.ordered
mergedOrdered(userOrdered) ==
  IF userOrdered = "undefined" THEN DefaultOrdered ELSE userOrdered

\* a resolution that never looks at the options
orderedConfigOnly(optOrdered, cfgOrdered) == cfgOrdered

\* const { ordered = this.#config.processing.ordered } = options
orderedOf(optOrdered, cfgOrdered) ==
  IF optOrdered = "undefined" THEN cfgOrdered ELSE optOrdered

\* Number(a.dataset[attr]) || 0
orderKey(value) ==
  CASE value = "-1" -> -1
    [] value = "1" -> 1
    [] OTHER -> 0

RECURSIVE insertAsc(_, _)
\* el placed behind every element whose key is not greater (the sort is stable)
insertAsc(sorted, el) ==
  IF sorted = <<>> THEN <<el>>
  ELSE IF orderKey(sorted[Len(sorted)].order) - orderKey(el.order) > 0
       THEN Append(insertAsc(SubSeq(sorted, 1, Len(sorted) - 1), el), sorted[Len(sorted)])
       ELSE Append(sorted, el)

RECURSIVE sortFrom(_, _, _)
sortFrom(elements, k, sorted) ==
  IF k > Len(elements) THEN sorted
  ELSE sortFrom(elements, k + 1, insertAsc(sorted, elements[k]))

\* sortByDataAttribute(elements, attr, 'asc')
sortByDataAttribute(elements) == sortFrom(elements, 1, <<>>)

select(elements, optOrdered, cfgOrdered) ==
  IF Len(elements) = 0 THEN <<>>
  ELSE LET filtered == SelectSeq(elements, LAMBDA el : el.name /= "_exclude_")
       IN IF orderedOf(optOrdered, cfgOrdered) = "true"
          THEN sortByDataAttribute(filtered)
          ELSE filtered

SelectElements ==
  UNION {{[k \in 1..n |-> [id |-> k, name |-> f[k][1], order |-> f[k][2]]] :
            f \in [1..n -> SubSetNames \X CustomOrders]} : n \in 0..MaxSelect}

SelectInit ==
  /\ dom = [text |-> <<>>, kids |-> <<>>]
  /\ config = DefaultConfig
  /\ rootElement = "container"
  /\ originalContent = <<>>
  /\ originalText = <<>>
  /\ isWrapped = FALSE
  /\ wrappedChars = <<>>
  /\ wrappedWords = <<>>
  /\ groups = <<>>
  /\ counters = [char |-> 0, word |-> 0]
  /\ elems = <<>>
  /\ tls = <<>>
  /\ now = 0
  /\ ctx = [in |-> "idle", tl |-> 0]
  /\ lastOp = Op("select", 0, "ok")
  /\ \E elements \in SelectElements, userOrdered \in OrderedValues :
       plan = [pc |-> "elements", elements |-> elements, userOrdered |-> userOrdered]

\* one call of select on the root, with or without the ordered option
RunSelect(optOrdered) ==
  /\ plan.pc = "elements"
  /\ plan' = [pc |-> "selected", elements |-> plan.elements,
              userOrdered |-> plan.userOrdered, optOrdered |-> optOrdered,
              result |-> select(plan.elements, optOrdered,
                                mergedOrdered(plan.userOrdered))]

SelectNext == (\E optOrdered \in OrderedValues : RunSelect(optOrdered)) /\ UNCHANGED fvars

SpecSelect == SelectInit /\ [][SelectNext]_vars

\* ---------------------------------------------------------------------
\* vocabulary for the plan claims
PlanBuilt == plan.pc = "built"

\* one old element per old character
PlanAligned == Len(plan.oldElements) = Len(plan.oldText)

OldIdx == 0..(Len(plan.oldText) - 1)

NewIdx == 0..(Len(plan.newText) - 1)

\* how often x occurs in sequence s
Count(s, x) == Cardinality({k \in DOMAIN s : s[k] = x})

KeepOld(m) == [k \in DOMAIN m.keep |-> m.keep[k].oldIndex]

KeepNew(m) == [k \in DOMAIN m.keep |-> m.keep[k].newIndex]

RemoveIdx(m) == [k \in DOMAIN m.remove |-> m.remove[k].index]

AddIdx(m) == [k \in DOMAIN m.add |-> m.add[k].index]

\* the keep/remove/add reading of a build: the old index of each reused
\* element, and the new indices that got a created element
ReusedElems(b) == [k \in DOMAIN b.reused |-> b.reused[k].element]

ReusedNew(b) == [k \in DOMAIN b.reused |-> b.reused[k].newIndex]

CreatedIdx(b) == [k \in DOMAIN b.created |-> b.created[k].index]

MappingPartitions(m) ==
  /\ \A j \in NewIdx : Count(KeepNew(m), j) + Count(AddIdx(m), j) = 1
  /\ \A i \in OldIdx : Count(KeepOld(m), i) + Count(RemoveIdx(m), i) = 1
  /\ \A k \in DOMAIN m.keep : m.keep[k].element = plan.oldElements[m.keep[k].oldIndex + 1]
  /\ Len(m.keep) + Len(m.remove) = Len(plan.oldText)
  /\ Len(m.keep) + Len(m.add) = Len(plan.newText)

BuildPartitions(b) ==
  /\ Len(b.newElements) = Len(plan.newText)
  /\ \A j \in NewIdx : Count(ReusedNew(b), j) + Count(CreatedIdx(b), j) = 1
  /\ \A i \in OldIdx :
       Count(ReusedElems(b), plan.oldElements[i + 1])
         + Count(b.elementsToRemove, plan.oldElements[i + 1]) = 1
  /\ \A k \in DOMAIN b.reused :
       b.newElements[b.reused[k].newIndex + 1] = b.reused[k].element
  /\ \A k \in DOMAIN b.created :
       /\ b.newElements[b.created[k].index + 1] = b.created[k].element
       /\ Count(b.elementsToAdd, b.created[k].element) = 1
       /\ Count(plan.oldElements, b.created[k].element) = 0
  /\ Len(b.reused) + Len(b.elementsToRemove) = Len(plan.oldText)
  /\ Len(b.reused) + Len(b.elementsToAdd) = Len(plan.newText)

\* C1: for every old/new pair with one old element per old character, the
\* smart plan (of smartMapping and of smartTransition) partitions both index
\* sets: each new index is in exactly one of keep/add, each old index in
\* exactly one of keep/remove, no old element serves two new positions,
\* |keep| + |remove| = |old| and |keep| + |add| = |new|.
C1_AlignmentComplete ==
  (PlanBuilt /\ plan.strategy = "smart" /\ PlanAligned) =>
    MappingPartitions(plan.mapping) /\ BuildPartitions(plan.build)

\* a smart plan that keeps a moved element, removes one and adds one
C1_Witness ==
  /\ PlanBuilt /\ plan.strategy = "smart" /\ PlanAligned
  /\ \E k \in DOMAIN plan.mapping.keep :
       plan.mapping.keep[k].oldIndex /= plan.mapping.keep[k].newIndex
  /\ plan.mapping.remove /= <<>> /\ plan.mapping.add /= <<>>
  /\ plan.build.reused /= <<>> /\ plan.build.elementsToRemove /= <<>>
  /\ plan.build.elementsToAdd /= <<>>

\* C2: every element the smart strategy reuses at new index j came from an
\* old index i with oldText[i] = newText[j].
C2_AlignmentCorrect ==
  (PlanBuilt /\ plan.strategy = "smart" /\ PlanAligned) =>
    /\ \A k \in DOMAIN plan.mapping.keep :
         LET kp == plan.mapping.keep[k]
         IN /\ kp.oldIndex \in OldIdx /\ kp.newIndex \in NewIdx
            /\ kp.element = plan.oldElements[kp.oldIndex + 1]
            /\ plan.oldText[kp.oldIndex + 1] = plan.newText[kp.newIndex + 1]
    /\ \A k \in DOMAIN plan.build.reused :
         LET r == plan.build.reused[k]
         IN \E i \in OldIdx :
              /\ plan.oldElements[i + 1] = r.element
              /\ plan.oldText[i + 1] = plan.newText[r.newIndex + 1]

\* a smart plan that reuses an element at another index than its own
C2_Witness ==
  /\ PlanBuilt /\ plan.strategy = "smart" /\ PlanAligned
  /\ \E k \in DOMAIN plan.mapping.keep :
       plan.mapping.keep[k].oldIndex /= plan.mapping.keep[k].newIndex
  /\ \E k \in DOMAIN plan.build.reused :
       plan.build.reused[k].element /= plan.build.reused[k].newIndex + 1

\* no old element is reused, every old element is removed and every
\* character of newText gets a created element
TrivialBuild(b) ==
  /\ b.reused = <<>>
  /\ b.elementsToRemove = plan.oldElements
  /\ Len(b.created) = Len(plan.newText)
  /\ \A k \in DOMAIN b.created :
       /\ b.created[k].index = k - 1
       /\ b.created[k].char = plan.newText[k]
       /\ b.newElements[k] = b.created[k].element

\* C10: with strategy 'sequential' or 'replace' the plan is the trivial
\* one for every old/new pair: keep is empty, every old element is removed
\* and every character of newText gets a newly created element.
C10_TrivialPlan ==
  (PlanBuilt /\ plan.strategy \in {"sequential", "replace"}) =>
    TrivialBuild(plan.build)

\* s is a prefix of t
IsPrefix(s, t) == Len(s) <= Len(t) /\ SubSeq(t, 1, Len(s)) = s

\* the (oldIndex, newIndex) pairs of a mapping
KeepPairs(m) == {<<m.keep[k].oldIndex, m.keep[k].newIndex>> : k \in DOMAIN m.keep}

\* the indices lo .. hi-1 in ascending order
Surplus(lo, hi) == [k \in 1..(hi - lo) |-> lo + k - 1]

SmartPlanBuilt == PlanBuilt /\ plan.strategy = "smart" /\ PlanAligned

\* C11: a smart transition to the text it starts from removes nothing, adds
\* nothing and reuses every element at its own index.
C11_NoOp ==
  (SmartPlanBuilt /\ plan.oldText = plan.newText) =>
    /\ plan.mapping.remove = <<>> /\ plan.mapping.add = <<>>
    /\ Len(plan.mapping.keep) = Len(plan.oldText)
    /\ KeepPairs(plan.mapping) = {<<i, i>> : i \in OldIdx}
    /\ \A k \in DOMAIN plan.mapping.keep :
         plan.mapping.keep[k].element = plan.oldElements[plan.mapping.keep[k].oldIndex + 1]
    /\ plan.build.elementsToRemove = <<>> /\ plan.build.elementsToAdd = <<>>
    /\ plan.build.created = <<>>
    /\ plan.build.newElements = plan.oldElements

\* a no-op plan over a text that repeats a character
C11_Witness ==
  /\ SmartPlanBuilt /\ plan.oldText = plan.newText
  /\ Len(plan.oldText) >= 2
  /\ \E i \in OldIdx, j \in OldIdx : i /= j /\ plan.oldText[i + 1] = plan.oldText[j + 1]
  /\ Len(plan.build.reused) = Len(plan.oldText)

\* C12: when one text is a prefix of the other, the smart plan keeps every
\* character of the shorter text at its own index; the surplus positions
\* are exactly the add set (newText longer, nothing removed) or exactly the
\* remove set (oldText longer, nothing added).
C12_Prefix ==
  (SmartPlanBuilt /\ (IsPrefix(plan.oldText, plan.newText) \/ IsPrefix(plan.newText, plan.oldText))) =>
    LET n == Min2(Len(plan.oldText), Len(plan.newText))
        m == plan.mapping
        b == plan.build
    IN /\ Len(m.keep) = n
       /\ KeepPairs(m) = {<<i, i>> : i \in 0..(n - 1)}
       /\ AddIdx(m) = Surplus(n, Len(plan.newText))
       /\ RemoveIdx(m) = Surplus(n, Len(plan.oldText))
       /\ SubSeq(b.newElements, 1, n) = SubSeq(plan.oldElements, 1, n)
       /\ CreatedIdx(b) = Surplus(n, Len(plan.newText))
       /\ Len(b.elementsToRemove) = Len(plan.oldText) - n
       /\ {b.elementsToRemove[k] : k \in DOMAIN b.elementsToRemove}
            = {plan.oldElements[k] : k \in (n + 1)..Len(plan.oldText)}

\* a plan for a text extended by a character it already holds, and a plan
\* for a text shortened by one
C12_Witness ==
  /\ SmartPlanBuilt
  /\ plan.oldText /= plan.newText
  /\ \/ /\ IsPrefix(plan.oldText, plan.newText)
        /\ plan.oldText /= <<>>
        /\ \E i \in OldIdx : plan.oldText[i + 1] = plan.newText[Len(plan.newText)]
        /\ plan.build.elementsToAdd /= <<>>
     \/ /\ IsPrefix(plan.newText, plan.oldText)
        /\ plan.newText /= <<>>
        /\ \E j \in NewIdx : plan.newText[j + 1] = plan.oldText[Len(plan.oldText)]
        /\ plan.build.elementsToRemove /= <<>>

\* C13: when the number of old elements differs from the length of oldText
\* the engine fails and plans nothing: no element is kept, reused, removed
\* or created.
C13_FailsFast ==
  (PlanBuilt /\ ~PlanAligned) =>
    /\ plan.mapping.keep = <<>> /\ plan.mapping.remove = <<>> /\ plan.mapping.add = <<>>
    /\ plan.build.reused = <<>> /\ plan.build.created = <<>>
    /\ plan.build.elementsToRemove = <<>> /\ plan.build.elementsToAdd = <<>>

\* ---------------------------------------------------------------------
\* vocabulary for the transition claims
Timelines == DOMAIN tls

TweensOf(k) == DOMAIN tls[k].tweens

\* the tween still has a target to change and has not finished
InFlight(tw) == tw.phase \in {"pending", "running"} /\ tw.live /= {}

\* the tween has changed a target
Began(tw) == tw.phase \in {"running", "done"}

\* the tween changes nothing any more
Over(tw) == tw.phase \in {"done", "killed"}

JustCalled == lastOp.op = "transitionTo" /\ lastOp.res = "timeline"

\* C3: when transitionTo(newText) returns, the text rendered by the
\* container's children already equals newText (each space shown as the
\* configured replacement), for the smart and the sequential strategy.
C3_PatchedAtReturn ==
  JustCalled => Rendered(dom, elems) = Display(tls[lastOp.tl].newText)

\* C4: during a single transition the container shows, at every instant
\* from the call to completion, either what it showed at the call or
\* exactly newText (each space shown as the configured replacement).
C4_OldOrNew ==
  Len(tls) = 1 =>
    \/ Rendered(dom, elems) = Rendered(tls[1].domAtCall, elems)
    \/ Rendered(dom, elems) = Display(tls[1].newText)

\* C5: once a later transitionTo has been called, no animation of an
\* earlier transition is in flight or running on any element, including
\* the elements the earlier transition created.
C5_EarlierCancelled ==
  \A k \in Timelines : \A c \in TweensOf(k) :
    k < Len(tls) => ~InFlight(tls[k].tweens[c])

\* C6: a transitionTo issued before the previous transition has completed
\* plans from the elements that are in the container at that moment.
C6_PlansFromContainer ==
  \A k \in Timelines :
    tls[k].prevPending => tls[k].oldElements = queryChars(tls[k].domAtCall, elems)

C8_CompleteLast ==
  /\ lastOp.op = "onComplete" =>
       /\ tls[lastOp.tl].patched
       /\ \A c \in TweensOf(lastOp.tl) : Over(tls[lastOp.tl].tweens[c])
       /\ originalText = tls[lastOp.tl].newText
       /\ wrappedChars = queryChars(dom, elems)
  /\ \A k \in Timelines :
       tls[k].calledIn /= 0 =>
         /\ tls[k].oldText = tls[tls[k].calledIn].newText
         /\ tls[k].oldElements = queryChars(tls[k].domAtCall, elems)

\* a transitionTo has just been issued inside the completion callback of a
\* transition that faded elements out, patched and faded elements in
C8_Witness ==
  /\ JustCalled
  /\ tls[lastOp.tl].calledIn /= 0
  /\ LET k == tls[lastOp.tl].calledIn
     IN /\ tls[k].completed /\ tls[k].patched
        /\ Len(tls[k].tweens) = 2
        /\ \A c \in TweensOf(k) : tls[k].tweens[c].phase = "done"
        /\ tls[k].newText /= tls[k].oldText

\* C9: with strategy 'sequential' the container's contents are not replaced
\* and no new element starts to fade in until the fade-out of every old
\* element has finished.
C9_RemoveBeforeAdd ==
  \A k \in Timelines : \A c \in TweensOf(k) :
    (/\ tls[k].method = "sequentialTransition"
     /\ tls[k].tweens[c].kind = "remove"
     /\ \/ tls[k].patched
        \/ \E d \in TweensOf(k) : tls[k].tweens[d].kind = "add" /\ Began(tls[k].tweens[d]))
    => Over(tls[k].tweens[c])

\* ======================================================================
\* The facade driven by calls and by the animation driver
\* ======================================================================
\* the transitions of a wrapped instance: wrap once, then transitionTo calls
\* that may overlap
Next ==
  \/ (~isWrapped /\ Wrap) /\ UNCHANGED plan
  \/ (\E newText \in DomTexts, o \in Options : TransitionTo(newText, o)) /\ UNCHANGED plan
  \/ TweenBegin /\ UNCHANGED plan
  \/ TweenEnd /\ UNCHANGED plan
  \/ DomPatch /\ UNCHANGED plan
  \/ OnComplete /\ UNCHANGED plan

Spec == Init /\ [][Next]_vars

\* ======================================================================
\* The life cycle: both facades, both wrap modes, every public call in any
\* order, with one transition in flight at most
\* ======================================================================
LifeTexts == SeqsUpTo(DomChars, MaxLifeText)

LifeInit == InitWith(LifeTexts, Configs)

LifeOptions == {o \in Options : o.stagger = 0}

\* one more call fits the bounds
MayCreate == Len(elems) < MaxCreated

NextLife ==
  \/ (isWrapped \/ MayCreate) /\ Wrap /\ UNCHANGED plan
  \/ Unwrap /\ UNCHANGED plan
  \/ MayCreate /\ Rewrap /\ UNCHANGED plan
  \/ Destroy /\ UNCHANGED plan
  \/ GetChars /\ UNCHANGED plan
  \/ GetWords /\ UNCHANGED plan
  \/ Animate /\ UNCHANGED plan
  \/ /\ isWrapped => Len(tls) < MaxLifeTransitions
     /\ \E newText \in DomTexts, o \in LifeOptions : TransitionTo(newText, o)
     /\ UNCHANGED plan
  \/ TweenBegin /\ UNCHANGED plan
  \/ TweenEnd /\ UNCHANGED plan
  \/ DomPatch /\ UNCHANGED plan
  \/ OnComplete /\ UNCHANGED plan

SpecLife == LifeInit /\ [][NextLife]_vars

C15_UnwrapRestores ==
  [][(lastOp'.op = "unwrap")
       => IF isWrapped
          THEN /\ dom' = [text |-> originalContent, kids |-> <<>>]
               /\ Rendered(dom', elems') = originalContent
               /\ wrappedChars' = <<>>
               /\ wrappedWords' = <<>>
               /\ groups' = <<>>
               /\ ~isWrapped'
               /\ lastOp'.res = "ok"
          ELSE /\ UNCHANGED <<dom, wrappedChars, wrappedWords, groups, counters,
                              isWrapped, elems, originalText, rootElement>>
               /\ lastOp'.res = "not wrapped"]_vars

\* unwrap() has restored the container after a transition completed and
\* replaced its content and the snapshot
C15_Witness ==
  /\ lastOp = Op("unwrap", 0, "ok")
  /\ \E k \in DOMAIN tls : tls[k].completed /\ tls[k].newText /= originalContent
  /\ originalText /= originalContent
  /\ dom = [text |-> originalContent, kids |-> <<>>]
  /\ originalContent /= <<>>

\* ---------------------------------------------------------------------
\* C16: transitionTo and animate on an instance that is not wrapped (never
\* wrapped, unwrapped, or destroyed) return null, do not throw, and leave
\* the container and the instance's state as they are.
C16_NotWrappedNull ==
  [][(~isWrapped /\ lastOp'.op \in {"transitionTo", "animate"})
       => /\ lastOp'.res = "null"
          /\ UNCHANGED <<dom, rootElement, originalContent, originalText, isWrapped,
                         wrappedChars, wrappedWords, groups, counters, elems, tls>>]_vars

\* transitionTo returned null on an instance that was wrapped, went through
\* a transition and was destroyed
C16_Witness ==
  /\ lastOp = Op("transitionTo", 0, "null")
  /\ rootElement = "null"
  /\ elems /= <<>>
  /\ \E k \in DOMAIN tls : tls[k].completed

\* ---------------------------------------------------------------------
\* C17: destroy() from any state restores the original markup if the
\* instance is wrapped and leaves it unwrapped with no root element; after
\* it isWrapped() is false and getChars() and getWords() return empty
\* sequences rather than failing.
C17_DestroyedReads ==
  [][/\ lastOp'.op = "destroy"
          => /\ lastOp'.res = "ok"
             /\ rootElement' = "null"
             /\ ~isWrapped'
             /\ isWrapped => dom' = [text |-> originalContent, kids |-> <<>>]
     /\ (rootElement = "null" /\ lastOp'.op \in {"getChars", "getWords"})
          => /\ lastOp'.res = "ok"
             /\ wrappedChars = <<>>
             /\ wrappedWords = <<>>]_vars

\* ---------------------------------------------------------------------
\* a text without its spaces
NoSpaces(text) == SelectSeq(text, LAMBDA c : ~IsSpace(c))

\* the concatenated text of the elements in the container
WrappedText(d, E) == Concat([k \in DOMAIN d.kids |-> TextOf(E, d.kids[k])])

\* a step that completes a round trip on unchanged markup: wrap() right
\* after an unwrap() that restored the container, or rewrap()
RoundTrip ==
  /\ \/ lastOp'.op = "wrap" /\ lastOp = Op("unwrap", 0, "ok")
     \/ lastOp'.op = "rewrap" /\ elems /= <<>>
  /\ lastOp'.res = "ok"
  /\ isWrapped \/ dom = [text |-> originalContent, kids |-> <<>>]

OwnMatches(chars, E) == SelectSeq(chars, LAMBDA id : groupTest(E[id].text))

\* C19: for a group defined by a regular expression, after wrap() the group
\* holds exactly the wrapped character elements whose own character
\* matches the expression, in element order, for every container text,
\* also one whose whitespace is trimmed or collapsed by wrapping.
C19_GroupsOwnCharacter ==
  (config.facade = "ts" /\ lastOp.op = "wrap" /\ lastOp.res = "ok" /\ tls = <<>>)
    => groups = OwnMatches(wrappedChars, elems)

\* ---------------------------------------------------------------------
\* the text the elements of a sequence show
Shown(chars, E) == [k \in DOMAIN chars |-> E[chars[k]].text]

\* C20: after a transition completes the facade's state is refreshed from
\* the patched container: getChars() is exactly the container's character
\* elements in document order, one per character of newText, the snapshot
\* is newText, and the group is the classification of those elements
\* against newText.
C20_RefreshedOnComplete ==
  (lastOp.op = "onComplete" /\ rootElement = "container")
    => LET newText == tls[lastOp.tl].newText
       IN /\ wrappedChars = queryChars(dom, elems)
          /\ Len(wrappedChars) = Len(newText)
          /\ Shown(wrappedChars, elems) = Display(newText)
          /\ originalText = newText
          /\ groups = filterCharacters(wrappedChars, newText, elems)

\* ---------------------------------------------------------------------
\* a number written with three digits
ThreeDigits(n) == <<n \div 100, (n % 100) \div 10, n % 10>>

\* how many of the first n elements of chars show something other than a space
NonSpaceBefore(chars, E, n) ==
  Cardinality({k \in 1..n : E[chars[k]].text /= replaceSpaceWith})

Range(seq) == {seq[k] : k \in DOMAIN seq}

\* C26: after a smart transition with char enumeration on, every reused
\* element carries exactly one positional class, and it marks the
\* element's new index in the numbering wrap() uses: new index j gives the
\* three-digit j, so the first character ends in -000.
C26_ReusedRetagged ==
  (JustCalled /\ tls[lastOp.tl].method = "smartTransition")
    => \A j \in DOMAIN tls[lastOp.tl].newElements :
         LET id == tls[lastOp.tl].newElements[j]
         IN id \in Range(tls[lastOp.tl].oldElements)
              => elems[id].pos = {ThreeDigits(j - 1)}

\* ---------------------------------------------------------------------
\* wrap() and then transitions one after the other, each completed
AfterCompletedTransitions ==
  /\ isWrapped
  /\ tls /= <<>>
  /\ \A k \in DOMAIN tls : tls[k].completed /\ ~tls[k].prevPending

\* C29: with char enumeration on, in every state reached by wrap() followed
\* by any number of completed transitions, no two character elements in the
\* container carry the same positional class.
C29_PositionalClassesDistinct ==
  AfterCompletedTransitions
    => LET chars == queryChars(dom, elems)
       IN \A i, j \in DOMAIN chars :
            i /= j => elems[chars[i]].pos \cap elems[chars[j]].pos = {}

\* ---------------------------------------------------------------------
\* the positions where both texts have the same character
SamePlace == {i \in OldIdx \cap NewIdx : plan.oldText[i + 1] = plan.newText[i + 1]}

\* C24: in a smart transition, for every index i below both lengths with
\* oldText[i] = newText[i], the element at old index i is the one reused at
\* new index i: it goes to no other position and position i gets no
\* different and no new element.
C24_ExactPosition ==
  SmartPlanBuilt
    => \A i \in SamePlace :
         /\ <<i, i>> \in KeepPairs(plan.mapping)
         /\ plan.build.newElements[i + 1] = plan.oldElements[i + 1]

\* the old element the proximity rule gives new index j when the old
\* indices in used are taken: the nearest of the same character, the
\* lowest on a tie; NoElem when there is none
Nearest(j, used) ==
  LET cand == {o \in OldIdx \ used : plan.oldText[o + 1] = plan.newText[j + 1]}
  IN IF cand = {} THEN NoElem
     ELSE plan.oldElements[1 + CHOOSE o \in cand : \A p \in cand :
            \/ Abs(o - j) < Abs(p - j)
            \/ Abs(o - j) = Abs(p - j) /\ o <= p]

\* the old indices of the elements that the new indices below j reuse
TakenBelow(j) ==
  {o \in OldIdx : \E n \in 0..(j - 1) : plan.build.newElements[n + 1] = plan.oldElements[o + 1]}

\* C25: in a smart transition, each new index j left unmatched by the
\* exact-position pass, taken in ascending order, reuses the still unused
\* old element of the same character whose old index is nearest to j, the
\* lowest on a tie; only when there is none does j get a new element.
C25_Proximity ==
  SmartPlanBuilt
    => \A j \in NewIdx \ SamePlace :
         LET want == Nearest(j, SamePlace \cup TakenBelow(j))
         IN IF want = NoElem
            THEN plan.build.newElements[j + 1] \notin Range(plan.oldElements)
            ELSE plan.build.newElements[j + 1] = want

\* ---------------------------------------------------------------------
\* two calls, the second made before the first completed, and everything
\* they scheduled is over
BothOver ==
  /\ Len(tls) = 2
  /\ tls[2].prevPending
  /\ \A k \in DOMAIN tls : tls[k].completed
  /\ ctx.in /= "tick"

\* C27: if transitionTo(A) and then transitionTo(B) are called before the
\* first has completed, then once all animations and callbacks are over the
\* container's text is B and the facade's snapshot and element sequence
\* describe B, whatever durations and staggers the calls use.
C27_LastCallWins ==
  BothOver
    => /\ Rendered(dom, elems) = Display(tls[2].newText)
       /\ originalText = tls[2].newText
       /\ wrappedChars = queryChars(dom, elems)
       /\ Shown(wrappedChars, elems) = Display(tls[2].newText)

\* ---------------------------------------------------------------------
\* C28: if unwrap() or destroy() is called while a transition is pending,
\* the transition's later callbacks (the rebuild of the container, the
\* completion) modify neither the container nor the instance and do not
\* fail: the container keeps the restored markup and the instance stays
\* unwrapped with empty element sequences.
C28_CallbacksAfterUnwrap ==
  [][(~isWrapped /\ lastOp'.op \in {"patch", "onComplete"})
       => /\ UNCHANGED <<dom, originalText, isWrapped, wrappedChars, wrappedWords, groups>>
          /\ lastOp'.res = "ok"]_vars

\* ---------------------------------------------------------------------
\* the instance is wrapped and nothing is scheduled or running
WrappedIdle == isWrapped /\ ctx.in /= "tick" /\ \A k \in DOMAIN tls : tls[k].completed

\* C30: for container text that needs no whitespace normalization, after any
\* sequence of wrap, completed transitionTo, unwrap and rewrap, whenever the
\* instance is wrapped and idle the text snapshot equals, position by
\* position, the characters shown by getChars(); after transitionTo(T)
\* completes and rewrap() restores the original markup, the snapshot is the
\* original text again, not T.
C30_SnapshotMatchesChars ==
  (config.facade = "ts" /\ originalContent = normalizeWhitespace(originalContent, TRUE)
     /\ WrappedIdle)
    => Display(originalText) = Shown(wrappedChars, elems)

\* ---------------------------------------------------------------------
\* position i starts a whitespace-delimited word of text
StartsWord(text, i) == text[i + 1] /= " " /\ (i = 0 \/ text[i] = " ")

\* position i ends one
EndsWord(text, i) == text[i + 1] /= " " /\ (i = Len(text) - 1 \/ text[i + 2] = " ")

\* the number of words that precede the word containing position i
WordsBefore(text, i) ==
  Cardinality({j \in 0..i : StartsWord(text, j)}) - 1

\* C22: for every character position i of the text given to the grouper,
\* the context has isFirstInWord true exactly when i starts a
\* whitespace-delimited word, isLastInWord true exactly when i ends one, and
\* wordIndex equal to the number of words before the word containing i,
\* also with runs of spaces and leading or trailing spaces.
C22_WordContext ==
  plan.pc = "context"
    => LET i == plan.context.index
       IN /\ plan.context.isFirstInWord <=> StartsWord(plan.text, i)
          /\ plan.context.isLastInWord <=> EndsWord(plan.text, i)
          /\ plan.text[i + 1] /= " " => plan.context.wordIndex = WordsBefore(plan.text, i)

\* whether ordering applies to a call: the passed option when there is one,
\* else the configured value, which is false when the user configured none
OrderingApplies ==
  IF plan.optOrdered /= "undefined" THEN plan.optOrdered = "true"
  ELSE plan.userOrdered = "true"

\* the selected elements' places in the document
SelectedIds == [k \in DOMAIN plan.result |-> plan.result[k].id]

\* the places of the elements that are not excluded, in document order
KeptIds ==
  LET kept == SelectSeq(plan.elements, LAMBDA el : el.name /= "_exclude_")
  IN [k \in DOMAIN kept |-> kept[k].id]

====
